---- MODULE Spec2Model ----
(***************************************************************************)
(* Model of the Graph class of scripts/graphmaster.py: the node table, the *)
(* adjacency table, the root/leaf bookkeeping, and the queries built on    *)
(* them.  A Python dict is modelled as the sequence of its (key, value)    *)
(* items in insertion order, a list as a sequence, and a mutable attribute *)
(* mapping as a cell of a heap addressed by a reference, so that two table *)
(* slots holding the same object can be told from two equal objects.       *)
(***************************************************************************)
EXTENDS Integers, Sequences, FiniteSets, TLC

\* ---------------------------------------------------------------- bounds
\* node identifiers are 1..MaxId
MaxId == 3
\* largest number of distinct edges of a graph built with attributes
MaxEdges == 2
\* largest number of distinct edges of the graphs the queries are run on
MaxQueryEdges == 3
\* get_descendants and get_ascendants are followed while their result list
\* has at most MaxOut entries
MaxOut == 5
\* attribute values written into a mapping are 1..MaxVal
MaxVal == 1
\* largest number of attribute mappings that are not empty
MaxNonEmpty == 1
\* alternative identifiers are 1..MaxAlt
MaxAlt == 1
\* largest number of rows of a file read_delim is given
MaxRows == 1
\* the attribute columns of a file are named 1..MaxCols
MaxCols == 1

\* ------------------------------------------------------------- constants
\* Python's None (absent argument, absent predecessor)
None == -1
\* float('inf'), the distance of a node bfs has not reached
Inf == -2
\* the empty attribute mapping {}; a positive content w is {"weight": w}
EmptyMap == 0

NodeIds == 1..MaxId
\* an attributes argument: None, or a mapping {"weight": w}
Payloads == {None} \cup (1..MaxVal)

\* ------------------------------------------------- dict and list helpers
\* the keys of a dict, in insertion order
Keys(d) == [i \in 1..Len(d) |-> d[i].k]
KeySet(d) == {d[i].k : i \in 1..Len(d)}
\* k in d
Has(d, k) == k \in KeySet(d)
\* d[k]
Get(d, k) == d[CHOOSE i \in 1..Len(d) : d[i].k = k].v
\* d[k] = v: a new key goes last, an existing key keeps its place
Put(d, k, v) ==
  IF Has(d, k)
    THEN [i \in 1..Len(d) |-> IF d[i].k = k THEN [k |-> k, v |-> v] ELSE d[i]]
    ELSE Append(d, [k |-> k, v |-> v])
\* x in l, for a list l
InList(l, x) == \E i \in 1..Len(l) : l[i] = x
\* l.remove(x): drops the first occurrence of x
ListRemove(l, x) ==
  LET i == CHOOSE j \in 1..Len(l) : l[j] = x /\ \A h \in 1..(j-1) : l[h] # x
  IN  SubSeq(l, 1, i-1) \o SubSeq(l, i+1, Len(l))

\* references of the attribute mappings: the mapping a call add_node(n, ..)
\* stores is <<n>>, the one a call add_edge(u, v, ..) stores is <<u, v>>
NodeRef(n) == <<n>>
EdgeRef(u, v) == <<u, v>>

\* ----------------------------------------------------------------- state
VARIABLES
  directed,   \* Graph.directed
  weighted,   \* Graph.weighted
  nodes,      \* Graph.nodes: dict id -> reference of the node's attributes
  edges,      \* Graph.edges: dict id -> dict id -> reference of the edge's attributes
  roots,      \* Graph.roots: list
  leaves,     \* Graph.leaves: list
  alt_id,     \* Graph.alt_id: dict alternative id -> id
  heap,       \* contents of the attribute mappings, by reference
  call,       \* the last call: its name, its node arguments, its attributes argument
  ret,        \* what the last call returned
  err,        \* TRUE when the last call raised
  pc,         \* "idle", or the method whose while loop is running
  stack,      \* the local list stack of get_descendants / get_ascendants
  acc         \* the local list descendants / ascendants

graphVars == <<directed, weighted, nodes, edges, roots, leaves, alt_id, heap>>
loopVars == <<pc, stack, acc>>
vars ==
  <<directed, weighted, nodes, edges, roots, leaves, alt_id, heap, call, ret, err, pc, stack, acc>>

\* the graph object as one value
Self ==
  [directed |-> directed, nodes |-> nodes, edges |-> edges,
   roots |-> roots, leaves |-> leaves, heap |-> heap]

Store(G) ==
  /\ nodes' = G.nodes
  /\ edges' = G.edges
  /\ roots' = G.roots
  /\ leaves' = G.leaves
  /\ heap' = G.heap
  /\ UNCHANGED <<directed, weighted, alt_id>>

\* what a call returns: nothing, an attribute mapping (by reference), or a
\* list; bfs and dfs return the record of their dicts
NoResult == [none |-> TRUE]
Ref(r) == [ref |-> r]
List(l) == [list |-> l]

Called(op, a, b, attrs) == call' = [op |-> op, a |-> a, b |-> b, attrs |-> attrs]

\* ------------------------------------------------------------ Graph.__init__
Init ==
  /\ directed \in BOOLEAN
  /\ weighted = FALSE
  /\ nodes = <<>>
  /\ edges = <<>>
  /\ roots = <<>>
  /\ leaves = <<>>
  /\ alt_id = <<>>
  /\ heap = <<>>
  /\ call = [op |-> "init", a |-> None, b |-> None, attrs |-> None]
  /\ ret = NoResult
  /\ err = FALSE
  /\ pc = "idle"
  /\ stack = <<>>
  /\ acc = <<>>

\* ------------------------------------------------------------ Graph.add_node
\* add_node as it would be if a supplied mapping replaced the stored one
add_node_overwrite(G, node_id, attributes) ==
  IF ~Has(G.nodes, node_id)
    THEN LET content == IF attributes = None THEN EmptyMap ELSE attributes
             G1 == [G EXCEPT !.heap = (NodeRef(node_id) :> content) @@ G.heap,
                             !.nodes = Put(G.nodes, node_id, NodeRef(node_id)),
                             !.edges = Put(G.edges, node_id, <<>>)]
         IN  IF G.directed
               THEN [G1 EXCEPT !.roots = Append(G.roots, node_id),
                               !.leaves = Append(G.leaves, node_id)]
               ELSE G1
    ELSE IF attributes = None
           THEN G
           ELSE [G EXCEPT !.heap = [G.heap EXCEPT ![Get(G.nodes, node_id)] = attributes]]

\* add_node as it would be if a present id were listed in roots and leaves anew
add_node_relist(G, node_id, attributes) ==
  LET content == IF attributes = None THEN EmptyMap ELSE attributes
      G1 == IF ~Has(G.nodes, node_id)
              THEN [G EXCEPT !.heap = (NodeRef(node_id) :> content) @@ G.heap,
                             !.nodes = Put(G.nodes, node_id, NodeRef(node_id)),
                             !.edges = Put(G.edges, node_id, <<>>)]
              ELSE G
  IN  IF G.directed
        THEN [G1 EXCEPT
                !.roots = IF InList(G.roots, node_id) THEN G.roots ELSE Append(G.roots, node_id),
                !.leaves = IF InList(G.leaves, node_id) THEN G.leaves ELSE Append(G.leaves, node_id)]
        ELSE G1

add_node(G, node_id, attributes) ==
  IF ~Has(G.nodes, node_id)
    THEN LET content == IF attributes = None THEN EmptyMap ELSE attributes
             G1 == [G EXCEPT !.heap = (NodeRef(node_id) :> content) @@ G.heap,
                             !.nodes = Put(G.nodes, node_id, NodeRef(node_id)),
                             !.edges = Put(G.edges, node_id, <<>>)]
         IN  IF G.directed
               THEN [G1 EXCEPT !.roots = Append(G.roots, node_id),
                               !.leaves = Append(G.leaves, node_id)]
               ELSE G1
    ELSE G

\* Graph.nb_nodes
nb_nodes(G) == Len(G.nodes)

\* ------------------------------------------------------------ Graph.add_edge
\* add_edge_nodes as it would be if the second node only got an adjacency entry
add_edge_nodes_no_table(G, node_id1, node_id2, node1_attributes, node2_attributes) ==
  LET G1 == IF ~Has(G.nodes, node_id1) THEN add_node(G, node_id1, node1_attributes) ELSE G
  IN  IF ~Has(G1.nodes, node_id2)
        THEN [G1 EXCEPT !.edges = Put(G1.edges, node_id2, <<>>)]
        ELSE G1

\* "create nodes if they do not exist"
add_edge_nodes(G, node_id1, node_id2, node1_attributes, node2_attributes) ==
  LET G1 == IF ~Has(G.nodes, node_id1) THEN add_node(G, node_id1, node1_attributes) ELSE G
  IN  IF ~Has(G1.nodes, node_id2) THEN add_node(G1, node_id2, node2_attributes) ELSE G1

\* add_edge_install as it would be if the reverse direction got a copy
add_edge_install_copy(G, node_id1, node_id2, attributes) ==
  LET content == IF attributes = None THEN EmptyMap ELSE attributes
      G1 == [G EXCEPT
               !.heap = (EdgeRef(node_id1, node_id2) :> content) @@ G.heap,
               !.edges = Put(G.edges, node_id1,
                             Put(Get(G.edges, node_id1), node_id2,
                                 EdgeRef(node_id1, node_id2)))]
  IN  IF ~G1.directed
        THEN [G1 EXCEPT
                !.heap = (EdgeRef(node_id2, node_id1) :> content) @@ G1.heap,
                !.edges = Put(G1.edges, node_id2,
                              Put(Get(G1.edges, node_id2), node_id1,
                                  EdgeRef(node_id2, node_id1)))]
        ELSE G1

\* the new edge's mapping is stored under [node_id1][node_id2] and, in an
\* undirected graph, the object read back from there under [node_id2][node_id1]
add_edge_install(G, node_id1, node_id2, attributes) ==
  LET content == IF attributes = None THEN EmptyMap ELSE attributes
      G1 == [G EXCEPT
               !.heap = (EdgeRef(node_id1, node_id2) :> content) @@ G.heap,
               !.edges = Put(G.edges, node_id1,
                             Put(Get(G.edges, node_id1), node_id2,
                                 EdgeRef(node_id1, node_id2)))]
  IN  IF ~G1.directed
        THEN [G1 EXCEPT
                !.edges = Put(G1.edges, node_id2,
                              Put(Get(G1.edges, node_id2), node_id1,
                                  Get(Get(G1.edges, node_id1), node_id2)))]
        ELSE G1

\* add_edge_roots_leaves as it would be if a self-loop were left alone
add_edge_roots_leaves_skip_loop(G, node_id1, node_id2) ==
  IF node_id1 = node_id2
    THEN G
    ELSE LET G1 == IF InList(G.roots, node_id2)
                     THEN [G EXCEPT !.roots = ListRemove(G.roots, node_id2)]
                     ELSE G
         IN  IF InList(G1.leaves, node_id1)
               THEN [G1 EXCEPT !.leaves = ListRemove(G1.leaves, node_id1)]
               ELSE G1

\* in a directed graph node_id2 stops being a root, node_id1 stops being a leaf
add_edge_roots_leaves(G, node_id1, node_id2) ==
  LET G1 == IF InList(G.roots, node_id2)
              THEN [G EXCEPT !.roots = ListRemove(G.roots, node_id2)]
              ELSE G
  IN  IF InList(G1.leaves, node_id1)
        THEN [G1 EXCEPT !.leaves = ListRemove(G1.leaves, node_id1)]
        ELSE G1

\* add_edge as it would be if a re-inserted edge took the new mapping
add_edge_overwrite(G, node_id1, node_id2, attributes, node1_attributes, node2_attributes) ==
  LET G1 == add_edge_nodes(G, node_id1, node_id2, node1_attributes, node2_attributes)
  IN  IF ~Has(Get(G1.edges, node_id1), node_id2) \/ attributes # None
        THEN LET G2 == add_edge_install(G1, node_id1, node_id2, attributes)
             IN  IF ~G2.directed THEN G2 ELSE add_edge_roots_leaves(G2, node_id1, node_id2)
        ELSE G1

add_edge(G, node_id1, node_id2, attributes, node1_attributes, node2_attributes) ==
  LET G1 == add_edge_nodes(G, node_id1, node_id2, node1_attributes, node2_attributes)
  IN  IF ~Has(Get(G1.edges, node_id1), node_id2)
        THEN LET G2 == add_edge_install(G1, node_id1, node_id2, attributes)
             IN  IF ~G2.directed THEN G2 ELSE add_edge_roots_leaves(G2, node_id1, node_id2)
        ELSE G1

\* Graph.nb_edges: the sum of the sizes of the adjacency entries
RECURSIVE SumAdj(_, _)
SumAdj(E, i) == IF i > Len(E) THEN 0 ELSE Len(E[i].v) + SumAdj(E, i + 1)
nb_edges(G) == SumAdj(G.edges, 1)

\* edges[u][v] exists
HasEdge(E, u, v) == Has(E, u) /\ Has(Get(E, u), v)

\* ----------------------------------------------------- bounds of the model
\* the number of distinct edges: an undirected edge between two different
\* nodes is stored in both directions
DistinctEdges(G) ==
  IF G.directed
    THEN nb_edges(G)
    ELSE (nb_edges(G) + Cardinality({n \in NodeIds : HasEdge(G.edges, n, n)})) \div 2

\* add_edge(u, v) may be called when the edge exists or there is room for one more
EdgeRoom(u, v, cap) == HasEdge(edges, u, v) \/ DistinctEdges(Self) < cap

NonEmptyWithin(h) == Cardinality({r \in DOMAIN h : h[r] # EmptyMap}) <= MaxNonEmpty

\* the arguments of one call hold at most MaxNonEmpty mappings
PayloadArgs ==
  {t \in Payloads \X Payloads \X Payloads :
     Cardinality({i \in 1..3 : t[i] # None}) <= MaxNonEmpty}

\* ---------------------------------------------------------------- actions
AddNode(n, a) ==
  \E G \in {add_node(Self, n, a)} :
      /\ pc = "idle"
      /\ UNCHANGED loopVars
      /\ NonEmptyWithin(G.heap)
      /\ Store(G)
      /\ Called("add_node", n, None, a)
      /\ ret' = Ref(Get(G.nodes, n))
      /\ err' = FALSE

AddEdge(u, v, a, a1, a2) ==
  \E G \in {add_edge(Self, u, v, a, a1, a2)} :
      /\ pc = "idle"
      /\ UNCHANGED loopVars
      /\ NonEmptyWithin(G.heap)
      /\ Store(G)
      /\ Called("add_edge", u, v, a)
      /\ ret' = Ref(Get(Get(G.edges, u), v))
      /\ err' = FALSE

\* the caller writes into the mapping the last add_node or add_edge call
\* returned: e_attr = go.add_edge(gp_id, gt_id); e_attr['relationship'] = ...
SetAttr(w) ==
  /\ pc = "idle"
  /\ UNCHANGED loopVars
  /\ call.op \in {"add_node", "add_edge", "set_attr"}
  /\ heap' = [heap EXCEPT ![ret.ref] = w]
  /\ NonEmptyWithin(heap')
  /\ Called("set_attr", call.a, call.b, w)
  /\ UNCHANGED <<directed, weighted, nodes, edges, roots, leaves, alt_id, ret, err>>

\* ------------------------------------- building a graph, with attributes
Next ==
  \/ \E n \in NodeIds, a \in Payloads : AddNode(n, a)
  \/ \E u, v \in NodeIds, t \in PayloadArgs :
       EdgeRoom(u, v, MaxEdges) /\ AddEdge(u, v, t[1], t[2], t[3])
  \/ \E w \in 1..MaxVal : SetAttr(w)

Spec == Init /\ [][Next]_vars

\* ------------------------------------------- building a graph, bare
\* the graphs the queries are run on are built without attributes
Build ==
  \/ \E n \in NodeIds : AddNode(n, None)
  \/ \E u, v \in NodeIds : EdgeRoom(u, v, MaxQueryEdges) /\ AddEdge(u, v, None, None, None)

\* Answer as it would be if the query used up self.roots
Answer_consuming_roots(op, a, b, r) ==
  /\ pc = "idle"
  /\ Called(op, a, b, None)
  /\ ret' = r.ret
  /\ err' = r.err
  /\ roots' = <<>>
  /\ UNCHANGED <<directed, weighted, nodes, edges, leaves, alt_id, heap, loopVars>>

\* a query returns or raises at once and leaves the graph alone
Answer(op, a, b, r) ==
  /\ pc = "idle"
  /\ Called(op, a, b, None)
  /\ ret' = r.ret
  /\ err' = r.err
  /\ UNCHANGED <<graphVars, loopVars>>

Raise == [err |-> TRUE, ret |-> NoResult]
Return(v) == [err |-> FALSE, ret |-> v]

\* sorted(list(d)): the keys of d in ascending order
SortedKeys(d) == SortSeq(Keys(d), LAMBDA x, y : x < y)

\* --------------------------------------------------- directional queries
\* get_predecessors as it would be if it did not test self.directed
get_predecessors_any_graph(G, node_id) ==
  IF Has(G.nodes, node_id)
    THEN Return(List(SelectSeq(Keys(G.edges), LAMBDA node : Has(Get(G.edges, node), node_id))))
    ELSE Raise

\* Graph.get_successors
get_successors(G, node_id) ==
  IF G.directed = TRUE /\ Has(G.edges, node_id)
    THEN Return(List(SortedKeys(Get(G.edges, node_id))))
    ELSE Raise

\* Graph.get_predecessors
get_predecessors(G, node_id) ==
  IF G.directed = TRUE /\ Has(G.nodes, node_id)
    THEN Return(List(SelectSeq(Keys(G.edges), LAMBDA node : Has(Get(G.edges, node), node_id))))
    ELSE Raise

\* the test that opens get_descendants
get_descendants_enter(G, node_id) == G.directed = TRUE /\ Has(G.edges, node_id)
\* the test that opens get_ascendants
get_ascendants_enter(G, node_id) == G.directed = TRUE /\ Has(G.nodes, node_id)

\* s reversed
Reverse(s) == [i \in 1..Len(s) |-> s[Len(s) + 1 - i]]

\* what one pass of get_descendants' while loop appends to both lists
descendants_pass(G, current_node) == Keys(Get(G.edges, current_node))
\* what one pass of get_ascendants' while loop appends to both lists
ascendants_pass(G, current_node) ==
  SelectSeq(Keys(G.edges), LAMBDA node : Has(Get(G.edges, node), current_node))

GetSuccessors(n) == Answer("get_successors", n, None, get_successors(Self, n))
GetPredecessors(n) == Answer("get_predecessors", n, None, get_predecessors(Self, n))

\* a call of get_descendants or get_ascendants: it raises, or enters its loop
EnterLoop(op, n, enter) ==
  /\ pc = "idle"
  /\ Called(op, n, None, None)
  /\ ret' = NoResult
  /\ err' = ~enter
  /\ pc' = IF enter THEN op ELSE "idle"
  /\ stack' = IF enter THEN <<n>> ELSE <<>>
  /\ acc' = <<>>
  /\ UNCHANGED graphVars

GetDescendants(n) == EnterLoop("get_descendants", n, get_descendants_enter(Self, n))
GetAscendants(n) == EnterLoop("get_ascendants", n, get_ascendants_enter(Self, n))

\* LoopPass as it would be if a node already listed were neither appended
\* nor pushed again
LoopPass_skip_listed(op, found) ==
  LET fresh == SelectSeq(found, LAMBDA n : ~InList(acc, n))
  IN  /\ pc = op
      /\ IF stack = <<>>
           THEN /\ ret' = List(acc)
                /\ pc' = "idle"
                /\ stack' = <<>>
                /\ acc' = <<>>
           ELSE /\ Len(acc) + Len(fresh) <= MaxOut
                /\ acc' = acc \o fresh
                /\ stack' = SubSeq(stack, 1, Len(stack) - 1) \o fresh
                /\ UNCHANGED <<pc, ret>>
      /\ UNCHANGED <<graphVars, call, err>>

\* one pass of the while loop (stack.pop() takes the last element), or the
\* return once the stack is empty
LoopPass(op, found) ==
  /\ pc = op
  /\ IF stack = <<>>
       THEN /\ ret' = List(acc)
            /\ pc' = "idle"
            /\ stack' = <<>>
            /\ acc' = <<>>
       ELSE /\ Len(acc) + Len(found) <= MaxOut
            /\ acc' = acc \o found
            /\ stack' = SubSeq(stack, 1, Len(stack) - 1) \o found
            /\ UNCHANGED <<pc, ret>>
  /\ UNCHANGED <<graphVars, call, err>>

DescendantsPass ==
  LoopPass("get_descendants",
           IF stack = <<>> THEN <<>> ELSE descendants_pass(Self, stack[Len(stack)]))
AscendantsPass ==
  LoopPass("get_ascendants",
           IF stack = <<>> THEN <<>> ELSE ascendants_pass(Self, stack[Len(stack)]))

NextDir ==
  \/ Build
  \/ \E n \in NodeIds : GetSuccessors(n)
  \/ \E n \in NodeIds : GetPredecessors(n)
  \/ \E n \in NodeIds : GetDescendants(n)
  \/ \E n \in NodeIds : GetAscendants(n)
  \/ DescendantsPass
  \/ AscendantsPass

SpecDir == Init /\ [][NextDir]_vars

\* ------------------------------------------------------------- Graph.bfs
\* the for loop of bfs over the neighbours vs[i..] of u; b holds the three
\* dicts and the queue
RECURSIVE bfs_neighbors(_, _, _, _)
\* bfs_neighbors as it would be if only queue.append were under the test
bfs_neighbors_relabel(b, u, vs, i) ==
  IF i > Len(vs)
    THEN b
    ELSE LET v == vs[i]
         IN  bfs_neighbors(
               [state |-> [b.state EXCEPT ![v] = "DISCOVERED"],
                distance |-> [b.distance EXCEPT ![v] = b.distance[u] + 1],
                predecessor |-> [b.predecessor EXCEPT ![v] = u],
                queue |-> IF b.state[v] = "UNEXPLORED" THEN Append(b.queue, v) ELSE b.queue],
               u, vs, i + 1)

bfs_neighbors(b, u, vs, i) ==
  IF i > Len(vs)
    THEN b
    ELSE LET v == vs[i]
         IN  IF b.state[v] = "UNEXPLORED"
               THEN bfs_neighbors(
                      [state |-> [b.state EXCEPT ![v] = "DISCOVERED"],
                       distance |-> [b.distance EXCEPT ![v] = b.distance[u] + 1],
                       predecessor |-> [b.predecessor EXCEPT ![v] = u],
                       queue |-> Append(b.queue, v)],
                      u, vs, i + 1)
               ELSE bfs_neighbors(b, u, vs, i + 1)

\* the while loop of bfs
RECURSIVE bfs_loop(_, _)
bfs_loop(G, b) ==
  IF b.queue = <<>>
    THEN b
    ELSE LET u == Head(b.queue)
             b1 == bfs_neighbors([b EXCEPT !.queue = Tail(b.queue)], u,
                                 Keys(Get(G.edges, u)), 1)
         IN  bfs_loop(G, [b1 EXCEPT !.state = [b1.state EXCEPT ![u] = "FINISHED"]])

\* Graph.bfs: self.edges[start_node_id] raises KeyError for an absent start
bfs(G, start_node_id) ==
  IF ~Has(G.edges, start_node_id)
    THEN Raise
    ELSE LET b == bfs_loop(G,
                    [state |-> (start_node_id :> "DISCOVERED") @@
                                 [n \in KeySet(G.nodes) |-> "UNEXPLORED"],
                     distance |-> (start_node_id :> 0) @@ [n \in KeySet(G.nodes) |-> Inf],
                     predecessor |-> [n \in KeySet(G.nodes) |-> None],
                     queue |-> <<start_node_id>>])
         IN  Return([state |-> b.state, distance |-> b.distance,
                     predecessor |-> b.predecessor])

Bfs(n) == Answer("bfs", n, None, bfs(Self, n))

NextBfs ==
  \/ Build
  \/ \E n \in NodeIds : Bfs(n)

SpecBfs == Init /\ [][NextBfs]_vars

\* ----------------------------------------------- Graph.get_shortest_path
\* the while loop that follows predecessor from end_node_id
RECURSIVE path_back(_, _)
path_back(predecessor, current_node) ==
  IF current_node = None
    THEN <<>>
    ELSE <<current_node>> \o path_back(predecessor, predecessor[current_node])

\* get_shortest_path as it would be if an absent end node gave the empty path
get_shortest_path_absent_empty(G, start_node_id, end_node_id) ==
  IF ~Has(G.nodes, start_node_id)
    THEN Raise
    ELSE IF ~Has(G.nodes, end_node_id)
      THEN Return(List(<<>>))
      ELSE LET r == bfs(G, start_node_id)
           IN  IF r.err
                 THEN Raise
                 ELSE IF r.ret.distance[end_node_id] = Inf
                   THEN Return(List(<<>>))
                   ELSE Return(List(Reverse(path_back(r.ret.predecessor, end_node_id))))

\* get_shortest_path as it would be without path.reverse()
get_shortest_path_no_reverse(G, start_node_id, end_node_id) ==
  IF ~Has(G.nodes, start_node_id)
    THEN Raise
    ELSE IF ~Has(G.nodes, end_node_id)
      THEN Raise
      ELSE LET r == bfs(G, start_node_id)
           IN  IF r.err
                 THEN Raise
                 ELSE IF r.ret.distance[end_node_id] = Inf
                   THEN Return(List(<<>>))
                   ELSE Return(List(path_back(r.ret.predecessor, end_node_id)))

get_shortest_path(G, start_node_id, end_node_id) ==
  IF ~Has(G.nodes, start_node_id)
    THEN Raise
    ELSE IF ~Has(G.nodes, end_node_id)
      THEN Raise
      ELSE LET r == bfs(G, start_node_id)
           IN  IF r.err
                 THEN Raise
                 ELSE IF r.ret.distance[end_node_id] = Inf
                   THEN Return(List(<<>>))
                   ELSE Return(List(Reverse(path_back(r.ret.predecessor, end_node_id))))

GetShortestPath(s, t) == Answer("get_shortest_path", s, t, get_shortest_path(Self, s, t))

NextPath ==
  \/ Build
  \/ \E s, t \in NodeIds : GetShortestPath(s, t)

SpecPath == Init /\ [][NextPath]_vars

\* ------------------------------------------------------------- Graph.dfs
\* d holds the five dicts state, predecessor, discovered, classification and
\* finished; time is an int argument, so each call counts on its own copy
RECURSIVE dfs_visit(_, _, _, _), dfs_edges(_, _, _, _, _, _)

\* dfs_edges as it would be if predecessor[v] = vertex were set for every
\* neighbour, outside the test on state[v]
dfs_edges_predecessor_always(G, vertex, time, d, vs, i) ==
  IF i > Len(vs)
    THEN d
    ELSE LET v == vs[i]
             e == <<vertex, v>>
             dp == [d EXCEPT !.predecessor = [d.predecessor EXCEPT ![v] = vertex]]
         IN  IF d.state[v] = "UNEXPLORED"
               THEN dfs_edges(G, vertex, time,
                      dfs_visit(G, v, time,
                        [dp EXCEPT !.classification = (e :> "TREE EDGE") @@ d.classification]),
                      vs, i + 1)
               ELSE IF d.state[v] = "DISCOVERED"
                 THEN dfs_edges(G, vertex, time,
                        [dp EXCEPT !.classification = (e :> "BACK EDGE") @@ d.classification],
                        vs, i + 1)
                 ELSE IF d.discovered[vertex] > d.discovered[v]
                   THEN dfs_edges(G, vertex, time,
                          [dp EXCEPT !.classification = (e :> "CROSS EDGE") @@ d.classification],
                          vs, i + 1)
                   ELSE dfs_edges(G, vertex, time,
                          [dp EXCEPT !.classification = (e :> "FORWARD EDGE") @@ d.classification],
                          vs, i + 1)

\* the for loop of dfs_visit over the neighbours vs[i..] of vertex
dfs_edges(G, vertex, time, d, vs, i) ==
  IF i > Len(vs)
    THEN d
    ELSE LET v == vs[i]
             e == <<vertex, v>>
         IN  IF d.state[v] = "UNEXPLORED"
               THEN dfs_edges(G, vertex, time,
                      dfs_visit(G, v, time,
                        [d EXCEPT !.predecessor = [d.predecessor EXCEPT ![v] = vertex],
                                  !.classification = (e :> "TREE EDGE") @@ d.classification]),
                      vs, i + 1)
               ELSE IF d.state[v] = "DISCOVERED"
                 THEN dfs_edges(G, vertex, time,
                        [d EXCEPT !.classification = (e :> "BACK EDGE") @@ d.classification],
                        vs, i + 1)
                 ELSE IF d.discovered[vertex] > d.discovered[v]
                   THEN dfs_edges(G, vertex, time,
                          [d EXCEPT !.classification = (e :> "CROSS EDGE") @@ d.classification],
                          vs, i + 1)
                   ELSE dfs_edges(G, vertex, time,
                          [d EXCEPT !.classification = (e :> "FORWARD EDGE") @@ d.classification],
                          vs, i + 1)

\* Graph.dfs_visit
dfs_visit(G, vertex, time, d) ==
  LET time1 == time + 1
      d1 == [d EXCEPT !.state = [d.state EXCEPT ![vertex] = "DISCOVERED"],
                      !.discovered = (vertex :> time1) @@ d.discovered]
      d2 == dfs_edges(G, vertex, time1, d1, Keys(Get(G.edges, vertex)), 1)
  IN  [d2 EXCEPT !.state = [d2.state EXCEPT ![vertex] = "FINISHED"],
                 !.finished = (vertex :> (time1 + 1)) @@ d2.finished]

\* the second for loop of dfs, over the nodes vs[i..]; time stays 0 here
RECURSIVE dfs_roots(_, _, _, _, _)
dfs_roots(G, time, d, vs, i) ==
  IF i > Len(vs)
    THEN d
    ELSE IF d.state[vs[i]] = "UNEXPLORED"
      THEN dfs_roots(G, time, dfs_visit(G, vs[i], time, d), vs, i + 1)
      ELSE dfs_roots(G, time, d, vs, i + 1)

\* Graph.dfs
dfs(G) ==
  Return(dfs_roots(G, 0,
           [state |-> [n \in KeySet(G.nodes) |-> "UNEXPLORED"],
            predecessor |-> [n \in KeySet(G.nodes) |-> None],
            discovered |-> <<>>,
            classification |-> <<>>,
            finished |-> <<>>],
           Keys(G.nodes), 1))

Dfs == Answer("dfs", None, None, dfs(Self))

NextDfs ==
  \/ Build
  \/ Dfs

SpecDfs == Init /\ [][NextDfs]_vars

\* a returned bool, a returned int
Bool(b) == [bool |-> b]
IntVal(n) == [int |-> n]

\* ------------------------------------------------------ Graph.is_acyclic
\* is_acyclic as it would be if it looked for FORWARD EDGE
is_acyclic_forward(G) ==
  LET classification == dfs(G).ret.classification
  IN  Return(Bool(~\E key \in DOMAIN classification : classification[key] = "FORWARD EDGE"))

is_acyclic(G) ==
  LET classification == dfs(G).ret.classification
  IN  Return(Bool(~\E key \in DOMAIN classification : classification[key] = "BACK EDGE"))

\* ------------------------------------------------ Graph.topological_sort
\* t holds the dict visited and the list stack
RECURSIVE dfs_topological(_, _, _), dfs_topological_neighbors(_, _, _, _)

\* the for loop of dfs_topological over the neighbours vs[i..] of v
dfs_topological_neighbors(G, t, vs, i) ==
  IF i > Len(vs)
    THEN t
    ELSE IF ~t.visited[vs[i]]
      THEN dfs_topological_neighbors(G, dfs_topological(G, vs[i], t), vs, i + 1)
      ELSE dfs_topological_neighbors(G, t, vs, i + 1)

dfs_topological(G, v, t) ==
  LET t1 == dfs_topological_neighbors(G, [t EXCEPT !.visited = [t.visited EXCEPT ![v] = TRUE]],
                                      Keys(Get(G.edges, v)), 1)
  IN  [t1 EXCEPT !.stack = Append(t1.stack, v)]

\* the for loop of topological_sort over the nodes vs[i..]
RECURSIVE topological_sort_nodes(_, _, _, _)
topological_sort_nodes(G, t, vs, i) ==
  IF i > Len(vs)
    THEN t
    ELSE IF ~t.visited[vs[i]]
      THEN topological_sort_nodes(G, dfs_topological(G, vs[i], t), vs, i + 1)
      ELSE topological_sort_nodes(G, t, vs, i + 1)

\* topological_sort as it would be without the test on is_acyclic
topological_sort_unchecked(G) ==
  Return(List(Reverse(
    topological_sort_nodes(G, [visited |-> [node \in KeySet(G.nodes) |-> FALSE],
                               stack |-> <<>>],
                           Keys(G.nodes), 1).stack)))

\* topological_sort as it would be if it returned stack as it stands
topological_sort_no_reverse(G) ==
  IF ~is_acyclic(G).ret.bool
    THEN Raise
    ELSE Return(List(
           topological_sort_nodes(G, [visited |-> [node \in KeySet(G.nodes) |-> FALSE],
                                      stack |-> <<>>],
                                  Keys(G.nodes), 1).stack))

topological_sort(G) ==
  IF ~is_acyclic(G).ret.bool
    THEN Raise
    ELSE Return(List(Reverse(
           topological_sort_nodes(G, [visited |-> [node \in KeySet(G.nodes) |-> FALSE],
                                      stack |-> <<>>],
                                  Keys(G.nodes), 1).stack)))

\* ------------------------------------------------------- Graph.max_depth
\* max(a, b)
Max2(a, b) == IF a > b THEN a ELSE b
\* max(l) for a list l that is not empty
RECURSIVE MaxOfList(_)
MaxOfList(l) == IF Len(l) = 1 THEN l[1] ELSE Max2(l[1], MaxOfList(Tail(l)))
\* list(d.values())
Values(d) == [i \in 1..Len(d) |-> d[i].v]

\* the inner for loop, over the leaves ls[j..]; m holds the dict depths and
\* whether get_shortest_path has raised
RECURSIVE max_depth_leaves(_, _, _, _, _)
max_depth_leaves(G, m, node_start, ls, j) ==
  IF j > Len(ls) \/ m.err
    THEN m
    ELSE LET depths0 == Put(m.depths, node_start, 0)
             path == get_shortest_path(G, node_start, ls[j])
         IN  IF path.err
               THEN [m EXCEPT !.err = TRUE]
               ELSE max_depth_leaves(G,
                      [m EXCEPT !.depths =
                         IF path.ret.list # <<>>
                           THEN Put(depths0, node_start,
                                    Max2(Get(depths0, node_start), Len(path.ret.list) - 1))
                           ELSE depths0],
                      node_start, ls, j + 1)

\* the outer for loop, over the roots rs[i..]
RECURSIVE max_depth_roots(_, _, _, _)
max_depth_roots(G, m, rs, i) ==
  IF i > Len(rs) \/ m.err
    THEN m
    ELSE max_depth_roots(G, max_depth_leaves(G, m, rs[i], G.leaves, 1), rs, i + 1)

\* Graph.max_depth: max() of an empty sequence raises ValueError
max_depth(G) ==
  IF is_acyclic(G).ret.bool = FALSE
    THEN Raise
    ELSE LET m == max_depth_roots(G, [depths |-> <<>>, err |-> FALSE], G.roots, 1)
         IN  IF m.err \/ m.depths = <<>>
               THEN Raise
               ELSE Return(IntVal(MaxOfList(Values(m.depths))))

IsAcyclic == Answer("is_acyclic", None, None, is_acyclic(Self))
TopologicalSort == Answer("topological_sort", None, None, topological_sort(Self))
MaxDepth == Answer("max_depth", None, None, max_depth(Self))

NextOrder ==
  \/ Build
  \/ IsAcyclic
  \/ TopologicalSort
  \/ MaxDepth

SpecOrder == Init /\ [][NextOrder]_vars

\* ------------------------------------------------------- Graph.neighbors
\* without a return statement for an absent id, the call returns None
neighbors(G, node_id) ==
  IF Has(G.edges, node_id)
    THEN Return(List(SortedKeys(Get(G.edges, node_id))))
    ELSE Return(NoResult)

Neighbors(n) == Answer("neighbors", n, None, neighbors(Self, n))

\* ------------------------------------------------------- Graph.alt_id
AltIds == 1..MaxAlt

\* the loader records an alternative id of the term go_id it is adding,
\* after go_graph.add_node(go_id) and between its go_graph.add_edge(go_id, ..)
\* calls: go_graph.alt_id[alt] = go_id
SetAltId(alt) ==
  /\ pc = "idle"
  /\ call.op \in {"add_node", "add_edge", "set_alt_id"}
  /\ alt_id' = Put(alt_id, alt, call.a)
  /\ Called("set_alt_id", call.a, None, alt)
  /\ ret' = NoResult
  /\ err' = FALSE
  /\ UNCHANGED <<directed, weighted, nodes, edges, roots, leaves, heap, loopVars>>

\* ------------------------------------------------------ Graph.read_delim
\* a well-formed file: the names of its attribute columns (none, or one),
\* and rows (u, v, value) of which value is read when there is a column
ColumnNames == 1..MaxCols
AttNames == {<<>>} \cup {<<c>> : c \in ColumnNames}
FileRows == UNION {[1..k -> NodeIds \X NodeIds \X (1..MaxVal)] : k \in 0..MaxRows}

\* att = {}, filled with the row's value for each attribute column
read_delim_att(attNames, row) == IF attNames = <<>> THEN EmptyMap ELSE row[3]

\* the while loop over the rows rows[i..]
RECURSIVE read_delim_rows(_, _, _, _)
read_delim_rows(G, attNames, rows, i) ==
  IF i > Len(rows)
    THEN G
    ELSE read_delim_rows(
           add_edge(G, rows[i][1], rows[i][2], read_delim_att(attNames, rows[i]), None, None),
           attNames, rows, i + 1)

\* "potential_weight_attribute and potential_weight_attribute in attNames"
read_delim_weighted(attNames, potential_weight_attribute) ==
  potential_weight_attribute # None /\ InList(attNames, potential_weight_attribute)

\* Graph.read_delim: returns self
ReadDelim(attNames, rows, potential_weight_attribute) ==
  \E G \in {read_delim_rows(Self, attNames, rows, 1)} :
      /\ pc = "idle"
      /\ DistinctEdges(G) <= MaxEdges
      /\ NonEmptyWithin(G.heap)
      /\ nodes' = G.nodes
      /\ edges' = G.edges
      /\ roots' = G.roots
      /\ leaves' = G.leaves
      /\ heap' = G.heap
      /\ weighted' = IF read_delim_weighted(attNames, potential_weight_attribute)
                       THEN TRUE
                       ELSE weighted
      /\ Called("read_delim", None, None, potential_weight_attribute)
      /\ ret' = [self |-> TRUE]
      /\ err' = FALSE
      /\ UNCHANGED <<directed, alt_id, loopVars>>

\* Graph.__init__ with either value of each flag
InitFlags ==
  /\ directed \in BOOLEAN
  /\ weighted \in BOOLEAN
  /\ nodes = <<>>
  /\ edges = <<>>
  /\ roots = <<>>
  /\ leaves = <<>>
  /\ alt_id = <<>>
  /\ heap = <<>>
  /\ call = [op |-> "init", a |-> None, b |-> None, attrs |-> None]
  /\ ret = NoResult
  /\ err = FALSE
  /\ pc = "idle"
  /\ stack = <<>>
  /\ acc = <<>>

NextFile ==
  \/ \E n \in NodeIds : AddNode(n, None)
  \/ \E u, v \in NodeIds : EdgeRoom(u, v, MaxEdges) /\ AddEdge(u, v, None, None, None)
  \/ \E attNames \in AttNames, rows \in FileRows, p \in {None} \cup ColumnNames :
       ReadDelim(attNames, rows, p)
  \/ \E n \in NodeIds : Neighbors(n)
  \/ IsAcyclic

SpecFile == InitFlags /\ [][NextFile]_vars

\* ------------------------------------- every query, on a graph being built
NextAll ==
  \/ \E n \in NodeIds : AddNode(n, None)
  \/ \E u, v \in NodeIds : EdgeRoom(u, v, MaxEdges) /\ AddEdge(u, v, None, None, None)
  \/ \E alt \in AltIds : SetAltId(alt)
  \/ \E n \in NodeIds : Neighbors(n)
  \/ \E n \in NodeIds : GetSuccessors(n)
  \/ \E n \in NodeIds : GetPredecessors(n)
  \/ \E n \in NodeIds : GetDescendants(n)
  \/ \E n \in NodeIds : GetAscendants(n)
  \/ DescendantsPass
  \/ AscendantsPass
  \/ \E n \in NodeIds : Bfs(n)
  \/ \E s, t \in NodeIds : GetShortestPath(s, t)
  \/ Dfs
  \/ IsAcyclic
  \/ TopologicalSort
  \/ MaxDepth

SpecAll == Init /\ [][NextAll]_vars

\* ------------------------------------------------ claims on the tables
NoDuplicates(l) == \A i, j \in 1..Len(l) : l[i] = l[j] => i = j
\* some edge targets n
HasIncoming(n) == \E u \in KeySet(edges) : Has(Get(edges, u), n)
\* some edge originates from n
HasOutgoing(n) == Has(edges, n) /\ Get(edges, n) # <<>>

\* C1: in a directed graph roots lists exactly the nodes no edge targets and
\* leaves exactly the nodes no edge originates from, each of them once.
C1_RootsLeavesExact ==
  directed =>
    /\ \A n \in NodeIds : InList(roots, n) <=> (Has(nodes, n) /\ ~HasIncoming(n))
    /\ \A n \in NodeIds : InList(leaves, n) <=> (Has(nodes, n) /\ ~HasOutgoing(n))
    /\ NoDuplicates(roots)
    /\ NoDuplicates(leaves)

\* a directed graph right after add_edge(a, a): a is neither root nor leaf,
\* and a second edge has its root and its leaf
C1_Witness ==
  /\ directed
  /\ call.op = "add_edge"
  /\ call.a = call.b
  /\ ret = Ref(EdgeRef(call.a, call.b))
  /\ ~InList(roots, call.a)
  /\ ~InList(leaves, call.a)
  /\ nb_edges(Self) = 2
  /\ roots # <<>>
  /\ leaves # <<>>

\* C2: the adjacency table and the node table have the same keys, and every
\* neighbour stored in an adjacency entry is a key of the node table.
C2_TablesAgree ==
  /\ KeySet(edges) = KeySet(nodes)
  /\ \A u \in KeySet(edges) : KeySet(Get(edges, u)) \subseteq KeySet(nodes)

\* an undirected graph whose last add_edge call created both of its nodes
C2_Witness ==
  /\ ~directed
  /\ call.op = "add_edge"
  /\ call.a # call.b
  /\ Keys(nodes) = <<call.a, call.b>>
  /\ HasEdge(edges, call.b, call.a)

\* C3: an add_edge call on a pair that already has an edge changes neither
\* the adjacency table nor any mapping nor roots nor leaves, and returns the
\* mapping stored for the pair.
C3_AddEdgeIdempotent ==
  [][(call'.op = "add_edge" /\ HasEdge(edges, call'.a, call'.b)) =>
       /\ edges' = edges
       /\ heap' = heap
       /\ roots' = roots
       /\ leaves' = leaves
       /\ ret' = Ref(Get(Get(edges, call'.a), call'.b))]_vars

\* add_edge was just called with a mapping, and the mapping it returned holds
\* something else: the pair had an edge with a different payload
C3_Witness ==
  /\ call.op = "add_edge"
  /\ call.attrs # None
  /\ heap[ret.ref] # call.attrs

\* C4: add_node and add_edge leave the mapping of every node that was
\* present before the call as it was (the same object, the same content),
\* and add_node on a present id returns that mapping.
C4_NodeAttrsKept ==
  [][(call'.op \in {"add_node", "add_edge"}) =>
       /\ \A n \in KeySet(nodes) :
            /\ Has(nodes', n)
            /\ Get(nodes', n) = Get(nodes, n)
            /\ heap'[Get(nodes, n)] = heap[Get(nodes, n)]
       /\ (call'.op = "add_node" /\ Has(nodes, call'.a)) => ret' = Ref(Get(nodes, call'.a))]_vars

\* add_node was just called with a mapping on an id whose stored mapping
\* holds something else
C4_Witness ==
  /\ call.op = "add_node"
  /\ call.attrs # None
  /\ ret = Ref(NodeRef(call.a))
  /\ heap[ret.ref] # call.attrs

\* C5: in an undirected graph the adjacency is symmetric and both directions
\* hold the same mapping object, so what was written through the mapping
\* add_edge(a, b) returned is read back through edges[b][a].
C5_UndirectedShared ==
  ~directed =>
    /\ \A u, v \in NodeIds :
         /\ HasEdge(edges, u, v) <=> HasEdge(edges, v, u)
         /\ HasEdge(edges, u, v) => Get(Get(edges, u), v) = Get(Get(edges, v), u)
    /\ (call.op = "set_attr" /\ call.b # None) =>
         /\ heap[Get(Get(edges, call.a), call.b)] = call.attrs
         /\ heap[Get(Get(edges, call.b), call.a)] = call.attrs

\* an undirected graph with two edges, after a write through the mapping of
\* an edge between two different nodes
C5_Witness ==
  /\ ~directed
  /\ call.op = "set_attr"
  /\ call.b # None
  /\ call.a # call.b
  /\ nb_edges(Self) >= 3
  /\ heap[Get(Get(edges, call.b), call.a)] = call.attrs

\* ------------------------------------------ claims on the directional queries
DirQueries == {"get_successors", "get_predecessors", "get_descendants", "get_ascendants"}

\* C6: each of the four directional queries raises, and returns nothing,
\* exactly when the graph is undirected or the id is not a node.
C6_DirQueriesRaise ==
  call.op \in DirQueries =>
    /\ err <=> (~directed \/ ~Has(nodes, call.a))
    /\ err => (ret = NoResult /\ pc = "idle")

\* get_predecessors has raised on an undirected graph for a node that has
\* a neighbour
C6_Witness ==
  /\ call.op = "get_predecessors"
  /\ err
  /\ ~directed
  /\ Has(nodes, call.a)
  /\ Get(edges, call.a) # <<>>

\* ------------------------------------------------- claims on bfs and paths
\* the nodes an edge leads to from n
Successors(n) == IF Has(edges, n) THEN KeySet(Get(edges, n)) ELSE {}
\* the nodes a walk of at most k edges leads to from s
RECURSIVE Within(_, _)
Within(s, k) ==
  IF k = 0
    THEN {s}
    ELSE LET W == Within(s, k - 1) IN W \cup UNION {Successors(n) : n \in W}
Reachable(s, t) == t \in Within(s, MaxId)
\* the least number of edges of a walk from s to t, for t reachable from s
Dist(s, t) == CHOOSE k \in 0..MaxId : t \in Within(s, k) /\ \A h \in 0..(k-1) : t \notin Within(s, h)

\* C7: bfs(start) on a start node of the graph returns, with an entry per
\* node: FINISHED, the least number of edges from start and (but for start)
\* a predecessor one edge and one unit of distance before it, for a node
\* reachable from start; UNEXPLORED, infinite distance and no predecessor for
\* any other node.
C7_BfsCorrect ==
  (call.op = "bfs" /\ Has(nodes, call.a)) =>
    /\ ~err
    /\ DOMAIN ret.state = KeySet(nodes)
    /\ DOMAIN ret.distance = KeySet(nodes)
    /\ DOMAIN ret.predecessor = KeySet(nodes)
    /\ \A n \in KeySet(nodes) :
         IF Reachable(call.a, n)
           THEN /\ ret.state[n] = "FINISHED"
                /\ ret.distance[n] = Dist(call.a, n)
                /\ n = call.a => ret.predecessor[n] = None
                /\ n # call.a =>
                     /\ ret.predecessor[n] \in KeySet(nodes)
                     /\ HasEdge(edges, ret.predecessor[n], n)
                     /\ ret.distance[ret.predecessor[n]] + 1 = ret.distance[n]
           ELSE /\ ret.state[n] = "UNEXPLORED"
                /\ ret.distance[n] = Inf
                /\ ret.predecessor[n] = None

\* bfs has run from a node that lies on a cycle and has found a node at
\* distance 2
C7_Witness ==
  /\ call.op = "bfs"
  /\ ~err
  /\ \E n \in Successors(call.a) : Reachable(n, call.a)
  /\ \E n \in KeySet(nodes) : ret.distance[n] = 2

\* p is a path of the graph: consecutive elements are joined by an edge
IsPath(p) == \A i \in 1..(Len(p) - 1) : HasEdge(edges, p[i], p[i + 1])

\* C8: for s and t in the graph get_shortest_path(s, t) is empty when t is
\* not reachable from s, and otherwise a path from s to t with the least
\* possible number of edges; get_shortest_path(s, s) is <<s>>.
C8_ShortestPath ==
  (call.op = "get_shortest_path" /\ Has(nodes, call.a) /\ Has(nodes, call.b)) =>
    /\ ~err
    /\ IF Reachable(call.a, call.b)
         THEN /\ ret.list # <<>>
              /\ ret.list[1] = call.a
              /\ ret.list[Len(ret.list)] = call.b
              /\ IsPath(ret.list)
              /\ Len(ret.list) - 1 = Dist(call.a, call.b)
         ELSE ret = List(<<>>)
    /\ call.a = call.b => ret = List(<<call.a>>)

\* the path of one edge was returned in a directed graph that also has a
\* walk of two edges between the same ends
C8_Witness ==
  /\ call.op = "get_shortest_path"
  /\ ~err
  /\ Len(ret.list) = 2
  /\ directed
  /\ \E n \in KeySet(nodes) \ {call.a, call.b} :
       HasEdge(edges, call.a, n) /\ HasEdge(edges, n, call.b)

\* C9: get_shortest_path(s, t) raises exactly when s or t is not a node, and
\* the empty path is returned only for two nodes of the graph with t not
\* reachable from s.
C9_AbsentEndpointRaises ==
  call.op = "get_shortest_path" =>
    /\ err <=> (~Has(nodes, call.a) \/ ~Has(nodes, call.b))
    /\ IF err
         THEN ret = NoResult
         ELSE ret = List(<<>>) => (/\ Has(nodes, call.a)
                             /\ Has(nodes, call.b)
                             /\ ~Reachable(call.a, call.b))

\* the call raised for an end node that is absent while the start node is
\* present and has an edge
C9_Witness ==
  /\ call.op = "get_shortest_path"
  /\ err
  /\ Has(nodes, call.a)
  /\ ~Has(nodes, call.b)
  /\ Successors(call.a) # {}

\* ------------------------------------------------------- claims on dfs
\* m is a proper descendant of n in the forest the predecessor dict describes
RECURSIVE ForestAbove(_, _, _)
ForestAbove(predecessor, m, k) ==
  IF k = 0 \/ predecessor[m] = None
    THEN {}
    ELSE {predecessor[m]} \cup ForestAbove(predecessor, predecessor[m], k - 1)
ForestDescendant(predecessor, m, n) == n \in ForestAbove(predecessor, m, MaxId)

\* C10: in the result of dfs() every node's finished time is greater than its
\* discovered time and greater than the finished time of each of its
\* descendants in the DFS forest.
C10_FinishedAfterDescendants ==
  call.op = "dfs" =>
    \A n \in KeySet(nodes) :
      /\ ret.finished[n] > ret.discovered[n]
      /\ \A m \in KeySet(nodes) :
           ForestDescendant(ret.predecessor, m, n) => ret.finished[n] > ret.finished[m]

\* the edges of the graph, as the pairs dfs uses for keys
EdgePairs == {e \in NodeIds \X NodeIds : HasEdge(edges, e[1], e[2])}

\* C11: dfs() on a directed graph classifies an edge (u, v) TREE EDGE when v
\* was discovered through it, BACK EDGE when v is u or an ancestor of u in the
\* DFS forest, FORWARD EDGE only when v is a proper descendant of u, and
\* CROSS EDGE only when v is not a descendant of u.
C11_StandardClassification ==
  (call.op = "dfs" /\ directed) =>
    \A e \in EdgePairs :
      LET u == e[1]
          v == e[2]
          c == ret.classification[e]
      IN  /\ ret.predecessor[v] = u => c = "TREE EDGE"
          /\ (v = u \/ ForestDescendant(ret.predecessor, u, v)) => c = "BACK EDGE"
          /\ c = "FORWARD EDGE" => ForestDescendant(ret.predecessor, v, u)
          /\ c = "CROSS EDGE" => ~ForestDescendant(ret.predecessor, v, u)

\* C12: after dfs() on a directed graph every node is FINISHED, the
\* classification has one entry per edge of the graph and no other, and
\* predecessor[v] = u exactly when (u, v) is a TREE EDGE; so a node has at
\* most one incoming tree edge, and none exactly when its predecessor is None.
C12_ForestOfTreeEdges ==
  (call.op = "dfs" /\ directed) =>
    /\ ~err
    /\ DOMAIN ret.state = KeySet(nodes)
    /\ DOMAIN ret.predecessor = KeySet(nodes)
    /\ \A n \in KeySet(nodes) : ret.state[n] = "FINISHED"
    /\ DOMAIN ret.classification = EdgePairs
    /\ \A e \in EdgePairs :
         ret.classification[e] \in {"TREE EDGE", "BACK EDGE", "CROSS EDGE", "FORWARD EDGE"}
    /\ \A u, v \in KeySet(nodes) :
         ret.predecessor[v] = u <=>
           (<<u, v>> \in EdgePairs /\ ret.classification[<<u, v>>] = "TREE EDGE")
    /\ \A v \in KeySet(nodes) :
         /\ Cardinality({u \in KeySet(nodes) :
                           <<u, v>> \in EdgePairs
                           /\ ret.classification[<<u, v>>] = "TREE EDGE"}) <= 1
         /\ ret.predecessor[v] = None <=>
              ~\E u \in KeySet(nodes) :
                  <<u, v>> \in EdgePairs /\ ret.classification[<<u, v>>] = "TREE EDGE"

\* dfs has run on a directed graph with two trees in its forest and a node
\* that two edges lead to, one of them a tree edge and the other not
C12_Witness ==
  /\ call.op = "dfs"
  /\ directed
  /\ ~err
  /\ Cardinality({n \in KeySet(nodes) : ret.predecessor[n] = None}) = 2
  /\ \E u, w, v \in KeySet(nodes) :
       /\ u # w
       /\ <<u, v>> \in EdgePairs
       /\ <<w, v>> \in EdgePairs
       /\ ret.classification[<<u, v>>] = "TREE EDGE"
       /\ ret.classification[<<w, v>>] # "TREE EDGE"

\* ------------------------------- claims on is_acyclic and topological_sort
\* some walk of at least one edge leads from a node back to it
HasCycle == \E n \in KeySet(nodes) : \E m \in Successors(n) : Reachable(m, n)

\* C13: on a directed graph is_acyclic() returns false exactly when the graph
\* has a directed cycle, a self-loop included, which is exactly when the
\* classification of dfs() holds a BACK EDGE.
C13_AcyclicIffNoCycle ==
  (call.op = "is_acyclic" /\ directed) =>
    /\ ~err
    /\ ret.bool = FALSE <=> HasCycle
    /\ HasCycle <=>
         \E e \in DOMAIN dfs(Self).ret.classification :
            dfs(Self).ret.classification[e] = "BACK EDGE"

\* is_acyclic has returned false on a directed graph whose only cycle runs
\* through three nodes
C13_Witness ==
  /\ call.op = "is_acyclic"
  /\ directed
  /\ ret = Bool(FALSE)
  /\ Len(nodes) = 3
  /\ \A n \in KeySet(nodes) : ~HasEdge(edges, n, n)
  /\ \A u, v \in KeySet(nodes) : HasEdge(edges, u, v) => ~HasEdge(edges, v, u)

\* C14: topological_sort() raises exactly when is_acyclic() is false, and
\* otherwise returns a list; on a single node without edges it returns that
\* node.
C14_SortRaisesIffCyclic ==
  call.op = "topological_sort" =>
    /\ err <=> (is_acyclic(Self).ret.bool = FALSE)
    /\ err => ret = NoResult
    /\ ~err => DOMAIN ret = {"list"}
    /\ (Len(nodes) = 1 /\ nb_edges(Self) = 0) => ret = List(Keys(nodes))

\* topological_sort has raised on a directed graph of three nodes, one of
\* them with a self-loop
C14_Witness ==
  /\ call.op = "topological_sort"
  /\ err
  /\ directed
  /\ Len(nodes) = 3
  /\ nb_edges(Self) = 3
  /\ \E n \in KeySet(nodes) : HasEdge(edges, n, n)

\* the place of n in the list l
IndexOf(l, n) == CHOOSE i \in 1..Len(l) : l[i] = n

\* C15: on a directed acyclic graph topological_sort() returns a list that
\* holds every node exactly once and puts u before v for every edge (u, v).
C15_SortRespectsEdges ==
  (call.op = "topological_sort" /\ directed /\ ~HasCycle) =>
    /\ ~err
    /\ Len(ret.list) = Len(nodes)
    /\ \A n \in KeySet(nodes) : InList(ret.list, n)
    /\ NoDuplicates(ret.list)
    /\ \A e \in EdgePairs : IndexOf(ret.list, e[1]) < IndexOf(ret.list, e[2])

\* topological_sort has returned on a directed acyclic graph in which a node
\* has two predecessors and whose nodes were inserted in an order that is
\* not a topological one
C15_Witness ==
  /\ call.op = "topological_sort"
  /\ directed
  /\ ~err
  /\ Len(ret.list) = 3
  /\ ret.list # Keys(nodes)
  /\ \E u, w, v \in KeySet(nodes) :
       u # w /\ HasEdge(edges, u, v) /\ HasEdge(edges, w, v)

\* ------------------------------------------------------ claims on max_depth
\* the number of edges of a shortest path from r to l, 0 without a path
PathLength(r, l) == IF Reachable(r, l) THEN Dist(r, l) ELSE 0
\* the greatest element of a set of naturals that is not empty
MaxOfSet(S) == CHOOSE x \in S : \A y \in S : y <= x

\* C16: on a directed acyclic graph with at least one node max_depth()
\* returns the greatest, over the roots r and the leaves l, of the number of
\* edges of a shortest path from r to l, a pair without a path counting 0.
C16_MaxDepthValue ==
  (call.op = "max_depth" /\ directed /\ ~HasCycle /\ nodes # <<>>) =>
    /\ ~err
    /\ ret = IntVal(MaxOfSet({PathLength(roots[i], leaves[j]) :
                                i \in 1..Len(roots), j \in 1..Len(leaves)}))

\* C17: max_depth() raises when the graph has a cycle, and on a graph
\* without a cycle, the empty graph included, returns an integer that is not
\* negative.
C17_MaxDepthRaisesIffCyclic ==
  call.op = "max_depth" =>
    /\ HasCycle => err
    /\ ~HasCycle => (~err /\ DOMAIN ret = {"int"} /\ ret.int >= 0)

\* ------------------------------------------------- claims on termination
\* C18: every traversal terminates.  bfs, dfs, get_shortest_path, is_acyclic
\* and topological_sort mark the nodes they visit and are computed to their
\* end above.  The while loops of get_descendants and get_ascendants are
\* steered by stack and the graph alone, so a loop that terminates never has,
\* after one pass or more, the stack it was entered with.
C18_TraversalsTerminate ==
  (pc \in {"get_descendants", "get_ascendants"} /\ acc # <<>>) => stack # <<call.a>>

\* ------------------------------------------------------ claims on the frame
Queries ==
  {"bfs", "dfs", "get_shortest_path", "is_acyclic", "topological_sort", "max_depth",
   "neighbors", "get_successors", "get_predecessors", "get_descendants", "get_ascendants"}

\* C19: a step of a query, be it its return, its raise or a pass of its loop,
\* leaves the node table, the adjacency table, the attribute mappings, the
\* alternative-id table, roots and leaves as they were.
C19_QueriesChangeNothing ==
  [][call'.op \in Queries =>
       /\ nodes' = nodes
       /\ edges' = edges
       /\ heap' = heap
       /\ alt_id' = alt_id
       /\ roots' = roots
       /\ leaves' = leaves]_vars

\* max_depth has raised on a directed graph that has a cycle, a root, a leaf
\* and an alternative id
C19_Witness ==
  /\ call.op = "max_depth"
  /\ err
  /\ directed
  /\ roots # <<>>
  /\ leaves # <<>>
  /\ alt_id # <<>>
  /\ nb_edges(Self) >= 1

\* -------------------------------------------------------- claims on the flags
\* C20: no call changes the directed flag or the weighted flag.
C20_FlagsKept == [][directed' = directed /\ weighted' = weighted]_vars

\* ------------------------------------------------------ claims on neighbors
\* l is in ascending order, without duplicates
Ascending(l) == \A i, j \in 1..Len(l) : i < j => l[i] < l[j]

\* C21: neighbors(id) returns the ids adjacent to id, in ascending order and
\* without duplicates, when id is a node, and the empty list when it is not.
C21_NeighborsList ==
  call.op = "neighbors" =>
    /\ ~err
    /\ IF Has(nodes, call.a)
         THEN /\ DOMAIN ret = {"list"}
              /\ Ascending(ret.list)
              /\ {ret.list[i] : i \in 1..Len(ret.list)} = Successors(call.a)
         ELSE ret = List(<<>>)

\* ------------------------------------------- claims on roots and leaves in time
\* C22: in a directed graph no add_node or add_edge call puts a node of the
\* graph that is not in roots into roots, or one that is not in leaves into
\* leaves.
C22_RootsLeavesOnlyShrink ==
  [][directed =>
       \A n \in KeySet(nodes) :
         /\ ~InList(roots, n) => ~InList(roots', n)
         /\ ~InList(leaves, n) => ~InList(leaves', n)]_vars

\* add_node was just called, with a mapping, on a node of a directed graph
\* that an edge had taken out of roots and another out of leaves
C22_Witness ==
  /\ directed
  /\ call.op = "add_node"
  /\ call.attrs # None
  /\ ~InList(roots, call.a)
  /\ ~InList(leaves, call.a)
  /\ ~HasEdge(edges, call.a, call.a)

\* ---------------------------------- claims on get_descendants, get_ascendants
\* the number of walks of 1 to k edges from s to n; in a graph without a
\* cycle these are its paths of at least one edge, none longer than MaxId
RECURSIVE SumOver(_, _, _, _)
RECURSIVE NumPaths(_, _, _)
\* the sum, over the successors ms[i..] of a node, of the walks through each
SumOver(ms, i, n, k) ==
  IF i > Len(ms)
    THEN 0
    ELSE (IF ms[i] = n THEN 1 ELSE 0) + NumPaths(ms[i], n, k - 1) + SumOver(ms, i + 1, n, k)
NumPaths(s, n, k) ==
  IF k = 0 \/ ~Has(edges, s) THEN 0 ELSE SumOver(Keys(Get(edges, s)), 1, n, k)
\* the number of occurrences of n in the list l
Count(l, n) == Cardinality({i \in 1..Len(l) : l[i] = n})

\* C23: on a directed graph without a cycle the list get_descendants(s)
\* returns holds each node n as many times as there are paths of at least one
\* edge from s to n, so s itself is absent; get_ascendants(s) does the same
\* with the paths from n to s.
C23_OneEntryPerPath ==
  (call.op \in {"get_descendants", "get_ascendants"} /\ pc = "idle" /\ ~err /\ ~HasCycle) =>
    /\ DOMAIN ret = {"list"}
    /\ ~InList(ret.list, call.a)
    /\ \A n \in NodeIds :
         Count(ret.list, n) =
           IF call.op = "get_descendants"
             THEN NumPaths(call.a, n, MaxId)
             ELSE NumPaths(n, call.a, MaxId)

\* get_ascendants has returned a list that holds a node twice
C23_Witness ==
  /\ call.op = "get_ascendants"
  /\ pc = "idle"
  /\ ~err
  /\ ~HasCycle
  /\ \E n \in NodeIds : Count(ret.list, n) = 2

====
